---- MODULE Spec2Model ----
(***************************************************************************)
(* Collection (src/unnamed/part_000): the ordered, uniquely keyed          *)
(* container of cells with its id -> cell index, its comparator, the       *)
(* listeners it installs on member cells and the events it triggers.       *)
(* Every public operation runs to completion, event dispatch included, so  *)
(* one action is one call.  The call's arguments, the state it started     *)
(* from, the events it triggered and its result are kept in history        *)
(* variables until the caller has observed them (Observe).                 *)
(***************************************************************************)
EXTENDS Integers, Sequences, FiniteSets, TLC

\* ------------------------------------------------------------------ bounds
NumIds == 2       \* distinct cell ids
MaxZ == 1         \* zIndex values are 0..MaxZ
MaxBatch == 2     \* longest list handed to add / remove / reset
MaxIndex == 2     \* explicit indices are drawn from -MaxIndex-1 .. MaxIndex

\* ------------------------------------------------------------- cells (Cell)
NULL == 0

Ids == 1..NumIds
\* Cell objects.  Cell NumIds+1 is a second object carrying the id of cell 1
\* (same id, different instance, different store).
Cell == 1..(NumIds + 1)
Id(cell) == IF cell > NumIds THEN 1 ELSE cell
\* Every cell owns its store instance: cell.store === other.store iff same object.
StoreOf(cell) == cell

ZValues == 0..MaxZ

RECURSIVE SeqsUpTo(_, _)
SeqsUpTo(S, n) ==
    IF n = 0 THEN {<<>>}
    ELSE LET shorter == SeqsUpTo(S, n - 1)
         IN shorter \cup {Append(s, x) : s \in {t \in shorter : Len(t) = n - 1}, x \in S}

CellLists == SeqsUpTo(Cell, MaxBatch)
NonEmptyLists == {l \in CellLists : l # <<>>}
Indices == (0 - MaxIndex - 1)..MaxIndex

\* Options objects: silent is "absent", "false" or "true"; merge TRUE when
\* merge: true is given; sort FALSE when sort: false is given.
SilentValues == {"absent", "false", "true"}
AddOptions == [silent : {"false", "true"}, merge : BOOLEAN, sort : BOOLEAN]
SetOptions == [silent : SilentValues, merge : {FALSE}, sort : {TRUE}]
NoOptions == [silent |-> "absent", merge |-> FALSE, sort |-> TRUE]
Silent(options) == options.silent = "true"

VARIABLES
    cells,       \* this.cells
    map,         \* this.map, NULL where the key is absent
    length,      \* this.length
    comparator,  \* this.comparator: "none" or the key "zIndex"
    subs,        \* per cell: listener sets this collection has installed on it
    zIndex,      \* per cell: the zIndex held in its store
    log,         \* events triggered by the collection during the last call
    call,        \* the last call: operation and arguments
    pre,         \* cells, map, length, subs and zIndex when the last call began
    ret,         \* what the last call returned
    sortOff,     \* some call so far was given sort: false
    cloned       \* the collection clone() returned, if any: its own fields

vars ==
    <<cells, map, length, comparator, subs, zIndex, log, call, pre, ret, sortOff, cloned>>

\* ------------------------------------------------------------ sequences
SeqToSet(s) == {s[i] : i \in 1..Len(s)}

IndexOf_OneBased(s, x) ==
    IF \E i \in 1..Len(s) : s[i] = x
    THEN CHOOSE i \in 1..Len(s) : s[i] = x /\ \A j \in 1..(i - 1) : s[j] # x
    ELSE 0 - 1

\* Array.prototype.indexOf, 0-based; -1 when absent.
IndexOf(s, x) ==
    IF \E i \in 1..Len(s) : s[i] = x
    THEN (CHOOSE i \in 1..Len(s) : s[i] = x /\ \A j \in 1..(i - 1) : s[j] # x) - 1
    ELSE 0 - 1

\* The start position Array.prototype.splice works from.
SpliceStart(s, start) ==
    IF start < 0
    THEN (IF Len(s) + start < 0 THEN 0 ELSE Len(s) + start)
    ELSE (IF start > Len(s) THEN Len(s) ELSE start)

\* s.splice(start, 0, ...items)
SpliceIn(s, start, items) ==
    LET k == SpliceStart(s, start)
    IN SubSeq(s, 1, k) \o items \o SubSeq(s, k + 1, Len(s))

SpliceOut_ToEnd(s, start) == SubSeq(s, 1, SpliceStart(s, start))

\* s.splice(start, 1)
SpliceOut(s, start) ==
    LET k == SpliceStart(s, start)
    IN SubSeq(s, 1, k) \o SubSeq(s, k + 2, Len(s))

\* x handed to F as a value: F(x) with x worked out once.
Bind(x, F(_)) == CHOOSE r \in {F(v) : v \in {x}} : TRUE

\* s, which is ordered by z, with x put after the last element not above it.
InsertSorted(s, x, z) ==
    LET k == Cardinality({i \in 1..Len(s) : z[s[i]] <= z[x]})
    IN SubSeq(s, 1, k) \o <<x>> \o SubSeq(s, k + 1, Len(s))

RECURSIVE SortPrefix(_, _, _)
SortPrefix(s, z, n) ==
    IF n = 0 THEN <<>>
    ELSE Bind(SortPrefix(s, z, n - 1), LAMBDA t : InsertSorted(t, s[n], z))

\* Stable ascending sort of s by key z (ArrayExt.sortBy with one key).
SortBy(s, z) == SortPrefix(s, z, Len(s))

Ordered(s, z) == \A i \in 1..(Len(s) - 1) : z[s[i]] <= z[s[i + 1]]

\* ---------------------------------------------------------------- events
\* What a handler finds in the collection when an event reaches it.
View(st) == [cells |-> st.cells, map |-> st.map, length |-> st.length]

\* by names the method whose trigger call emitted the event; seen is the
\* collection as it is while the event is dispatched.
Event(name, by) ==
    [name |-> name, by |-> by, cell |-> NULL, index |-> 0,
     added |-> <<>>, merged |-> <<>>, removed |-> <<>>,
     previous |-> <<>>, current |-> <<>>,
     seen |-> [cells |-> <<>>, map |-> [i \in Ids |-> NULL], length |-> 0]]

\* A handler registered on the collection for the events named on: when the
\* first such event reaches it, it calls remove(cell) or add(cell) on the
\* collection (op), once.  NoHandler: nothing is registered.
NoHandler == [on |-> "none", op |-> "none", cell |-> NULL]
Handlers ==
    [on : {"add", "change", "remove", "reset"}, op : {"add", "remove"}, cell : Cell]

RECURSIVE add(_, _, _, _, _)
RECURSIVE remove(_, _, _, _)

\* The registered handler, run on the event ev.
handle(st, ev) ==
    IF st.handler.op # "none" /\ st.handler.on = ev.name
    THEN Bind([st EXCEPT !.handler = NoHandler],
              LAMBDA st1 :
                IF st.handler.op = "remove"
                THEN remove(st1, <<st.handler.cell>>, FALSE, NoOptions).st
                ELSE add(st1, <<st.handler.cell>>, "cells", 0, NoOptions))
    ELSE st

\* Handlers run inline, inside the trigger call.
trigger(st, ev) ==
    handle([st EXCEPT !.log = Append(@, [ev EXCEPT !.seen = View(st)])], ev)

\* The collection state a call works on.
State == [cells |-> cells, map |-> map, length |-> length, subs |-> subs,
          zIndex |-> zIndex, log |-> <<>>, handler |-> NoHandler]

\* ------------------------------------------------------------ Collection
clean(st) ==
    [st EXCEPT !.length = 0, !.cells = <<>>, !.map = [i \in Ids |-> NULL]]

get_ByInstance(st, obj) ==
    IF obj = NULL THEN NULL
    ELSE IF st.map[Id(obj)] = obj THEN obj ELSE NULL

get(st, obj) == IF obj = NULL THEN NULL ELSE st.map[Id(obj)]

reference_ForgetsMap(st, cell) == [st EXCEPT !.subs[cell] = @ + 1]

\* cell.on(...) adds one listener set
reference(st, cell) ==
    [st EXCEPT !.map[Id(cell)] = cell, !.subs[cell] = @ + 1]

unreference_KeepsListeners(st, cell) == [st EXCEPT !.map[Id(cell)] = NULL]

\* cell.off(...) takes this collection's listeners off the cell
unreference(st, cell) ==
    [st EXCEPT !.subs[cell] = 0, !.map[Id(cell)] = NULL]

sort_NoGuard(st, options) ==
    Bind([st EXCEPT !.cells = SortBy(st.cells, st.zIndex)],
         LAMBDA sorted : IF ~Silent(options)
                         THEN trigger(sorted, Event("sort", "sort"))
                         ELSE sorted)

sort(st, options) ==
    IF comparator # "none"
    THEN Bind([st EXCEPT !.cells = SortBy(st.cells, st.zIndex)],
              LAMBDA sorted : IF ~Silent(options)
                              THEN trigger(sorted, Event("sort", "sort"))
                              ELSE sorted)
    ELSE st

onCellChanged(st, cell) ==
    trigger(st, [Event("change", "onCellChanged") EXCEPT !.cell = cell])

onCellZIndexChanged_Ignores(st, options) == st

onCellZIndexChanged_Loud(st, options) == sort(st, NoOptions)

onCellZIndexChanged(st, options) == sort(st, options)

\* store.set(data, options) of a cell as the collection meets it: the store
\* takes the new zIndex and the cell publishes change:zIndex, then changed, with
\* those options; both reach this collection's handlers while it is subscribed.
storeSet(st, cell, z, options) ==
    IF st.zIndex[cell] = z THEN st
    ELSE Bind([st EXCEPT !.zIndex[cell] = z],
              LAMBDA st1 :
                IF st1.subs[cell] > 0
                THEN Bind(onCellZIndexChanged(st1, options),
                          LAMBDA st2 : onCellChanged(st2, cell))
                ELSE st1)

\* existing.store.hasChanged(sortAttr) right after the set above.
hasChanged(old, new) == old # new

\* index resolution of add (localIndex)
localIndexOf(st, form, index) ==
    LET given == IF form = "index" THEN index ELSE st.length
        capped == IF given > st.length THEN st.length ELSE given
    IN IF capped < 0 THEN capped + st.length + 1 ELSE capped

localOptionsOf_DropsMerge(form, options) ==
    IF form = "cells" THEN NoOptions ELSE [options EXCEPT !.merge = FALSE]

\* { merge: false, ...options } or { merge: false, ...index }  (localOptions)
localOptionsOf(form, options) == IF form = "cells" THEN NoOptions ELSE options

\* the options parameter of add: bound only in the add(cells, index, options) form
optionsParam(form, options) == IF form = "index" THEN options ELSE NoOptions

\* this.comparator && index == null && localOptions.sort !== false
sortableOf(form, options) ==
    /\ comparator # "none"
    /\ form = "cells"
    /\ localOptionsOf(form, options).sort # FALSE

\* one round of entities.forEach in add
addEach(acc, cell, form, options) ==
    LET existing == get(acc.st, cell)
    IN IF existing # NULL
       THEN IF localOptionsOf(form, options).merge /\ StoreOf(cell) # StoreOf(existing)
            THEN [acc EXCEPT
                    !.st = storeSet(acc.st, existing, acc.st.zIndex[cell],
                                    optionsParam(form, options)),
                    !.merged = Append(@, existing),
                    !.sort = IF sortableOf(form, options) /\ ~acc.sort
                             THEN hasChanged(acc.st.zIndex[existing], acc.st.zIndex[cell])
                             ELSE acc.sort]
            ELSE acc
       ELSE [acc EXCEPT !.added = Append(@, cell), !.st = reference(acc.st, cell)]

RECURSIVE addLoop(_, _, _, _, _)
addLoop(acc, entities, i, form, options) ==
    IF i > Len(entities) THEN acc
    ELSE Bind(addEach(acc, entities[i], form, options),
              LAMBDA next : addLoop(next, entities, i + 1, form, options))

RECURSIVE addEvents_Reversed(_, _, _, _)
addEvents_Reversed(st, added, localIndex, i) ==
    IF i >= Len(added) THEN st
    ELSE Bind(trigger(st, [Event("add", "add") EXCEPT
                             !.cell = added[Len(added) - i],
                             !.index = localIndex + Len(added) - i - 1]),
              LAMBDA next : addEvents_Reversed(next, added, localIndex, i + 1))

\* added.forEach((cell, i) => this.trigger('add', { cell, index: localIndex + i }))
RECURSIVE addEvents(_, _, _, _)
addEvents(st, added, localIndex, i) ==
    IF i >= Len(added) THEN st
    ELSE Bind(trigger(st, [Event("add", "add") EXCEPT !.cell = added[i + 1],
                                                      !.index = localIndex + i]),
              LAMBDA next : addEvents(next, added, localIndex, i + 1))

\* if (added.length) { this.cells.splice(localIndex, 0, ...added); length = ... }
addSplice(acc, localIndex) ==
    IF acc.added # <<>>
    THEN Bind(SpliceIn(acc.st.cells, localIndex, acc.added),
              LAMBDA spliced : [acc.st EXCEPT !.cells = spliced, !.length = Len(spliced)])
    ELSE acc.st

\* the sort flag once the loop and the splice are done
addSorts(acc, form, options) ==
    IF acc.added # <<>> /\ sortableOf(form, options) THEN TRUE ELSE acc.sort

\* if (!localOptions.silent) { add events; sort event; update event }
addTriggers(st, acc, localIndex, form, options) ==
    IF Silent(localOptionsOf(form, options)) THEN st
    ELSE Bind(addEvents(st, acc.added, localIndex, 0),
              LAMBDA st3 :
                Bind(IF addSorts(acc, form, options)
                     THEN trigger(st3, Event("sort", "add")) ELSE st3,
                     LAMBDA st4 :
                       IF acc.added # <<>> \/ acc.merged # <<>>
                       THEN trigger(st4, [Event("update", "add") EXCEPT
                                            !.added = acc.added, !.merged = acc.merged])
                       ELSE st4))

\* add(cells), add(cells, options), add(cells, index, options); form names which
add(st, entities, form, index, options) ==
    Bind(addLoop([st |-> st, added |-> <<>>, merged |-> <<>>, sort |-> FALSE],
                 entities, 1, form, options),
         LAMBDA acc :
           Bind(addSplice(acc, localIndexOf(st, form, index)),
                LAMBDA st1 :
                  Bind(IF addSorts(acc, form, options)
                       THEN sort(st1, [NoOptions EXCEPT !.silent = "true"]) ELSE st1,
                       LAMBDA st2 :
                         addTriggers(st2, acc, localIndexOf(st, form, index),
                                     form, options))))

\* one round of the for loop of removeCells
removeEach(acc, obj, options) ==
    LET cell == get(acc.st, obj)
        index == IndexOf(acc.st.cells, cell)
    IN IF cell = NULL THEN acc
       ELSE Bind(unreference([acc.st EXCEPT !.cells = SpliceOut(@, index),
                                            !.length = @ - 1,
                                            !.map[Id(cell)] = NULL], cell),
                 LAMBDA st2 :
                   [st |-> IF ~Silent(options)
                           THEN trigger(st2, [Event("remove", "removeCells") EXCEPT
                                                !.cell = cell, !.index = index])
                           ELSE st2,
                    removed |-> Append(acc.removed, cell)])

RECURSIVE removeCells(_, _, _, _)
removeCells(acc, entities, i, options) ==
    IF i > Len(entities) THEN acc
    ELSE Bind(removeEach(acc, entities[i], options),
              LAMBDA next : removeCells(next, entities, i + 1, options))

\* What a call returns.
Returned(kind, cell, list) == [kind |-> kind, cell |-> cell, list |-> list]
ReturnsThis == Returned("this", NULL, <<>>)

\* remove(cell, options) and remove(cells, options); isArray names which
remove(st, entities, isArray, options) ==
    Bind(removeCells([st |-> st, removed |-> <<>>], entities, 1, options),
         LAMBDA done :
           [st |-> IF ~Silent(options) /\ Len(done.removed) > 0
                   THEN trigger(done.st, [Event("update", "remove") EXCEPT
                                            !.removed = done.removed])
                   ELSE done.st,
            ret |-> IF isArray THEN Returned("list", NULL, done.removed)
                    ELSE IF done.removed = <<>> THEN Returned("undefined", NULL, <<>>)
                    ELSE Returned("cell", done.removed[1], <<>>)])

\* previous.forEach(cell => this.unreference(cell))
RECURSIVE unreferenceAll(_, _, _)
unreferenceAll(st, previous, i) ==
    IF i > Len(previous) THEN st
    ELSE Bind(unreference(st, previous[i]),
              LAMBDA next : unreferenceAll(next, previous, i + 1))

\* { silent: true, ...options }
resetAddOptions(options) ==
    IF options.silent = "absent" THEN [options EXCEPT !.silent = "true"] ELSE options

reset(st, entities, options) ==
    Bind(clean(unreferenceAll(st, st.cells, 1)),
         LAMBDA st1 :
           Bind(add(st1, entities, "options", 0, resetAddOptions(options)),
                LAMBDA st2 :
                  IF ~Silent(options)
                  THEN trigger(st2, [Event("reset", "reset") EXCEPT
                                       !.previous = st.cells, !.current = st2.cells])
                  ELSE st2))

at_NoWrap(st, index) ==
    IF index >= 0 /\ index < Len(st.cells) THEN st.cells[index + 1] ELSE NULL

\* at(index); NULL when out of range
at(st, index) ==
    LET i == IF index < 0 THEN index + st.length ELSE index
    IN IF i >= 0 /\ i < Len(st.cells) THEN st.cells[i + 1] ELSE NULL

first(st) == at(st, 0)
last(st) == at(st, 0 - 1)

push(st, cell, options) == add(st, <<cell>>, "index", st.length, options)
unshift(st, cell, options) == add(st, <<cell>>, "index", 0, options)
pop(st, options) == remove(st, <<at(st, st.length - 1)>>, FALSE, options)
shift(st, options) == remove(st, <<at(st, 0)>>, FALSE, options)

onCellDisposed_Silent(st, cell) ==
    IF cell # NULL
    THEN remove(st, <<cell>>, FALSE, [NoOptions EXCEPT !.silent = "true"]).st
    ELSE st

onCellDisposed(st, cell) ==
    IF cell # NULL THEN remove(st, <<cell>>, FALSE, NoOptions).st ELSE st

\* new Collection(cells, { comparator }): clean(), then reset(cells, { silent: true })
constructed(entities, z) ==
    Bind(clean([cells |-> <<>>, map |-> [i \in Ids |-> NULL], length |-> 0,
                subs |-> [c \in Cell |-> 0], zIndex |-> z, log |-> <<>>,
                handler |-> NoHandler]),
         LAMBDA empty :
           IF entities # <<>>
           THEN reset(empty, entities, [NoOptions EXCEPT !.silent = "true"])
           ELSE empty)

clone_Empty(st) == constructed(<<>>, st.zIndex)

\* clone(): new Collection(this.cells.slice(), { comparator: this.comparator })
clone(st) == constructed(st.cells, st.zIndex)

\* ------------------------------------------------------------------ calls
Call(op) ==
    [op |-> op, entities |-> <<>>, form |-> "cells", index |-> 0,
     options |-> NoOptions, cell |-> NULL, z |-> 0,
     handler |-> NoHandler, fired |-> FALSE, on |-> "original"]
Idle == Call("none")

\* No clone has been made.  was: the clone's fields when the last call began;
\* fresh: no method of the clone has been called yet.
NoClone ==
    [exists |-> FALSE, fresh |-> TRUE, cells |-> <<>>, map |-> [i \in Ids |-> NULL],
     length |-> 0, subs |-> [c \in Cell |-> 0], log |-> <<>>,
     was |-> [cells |-> <<>>, map |-> [i \in Ids |-> NULL], length |-> 0,
              subs |-> [c \in Cell |-> 0]]]

CloneSnapshot ==
    [cells |-> cloned.cells, map |-> cloned.map, length |-> cloned.length,
     subs |-> cloned.subs]

Snapshot == [cells |-> cells, map |-> map, length |-> length, subs |-> subs,
             zIndex |-> zIndex]

\* The call c ran from the current state to completion, left st and returned r.
Completes(c, st, r) ==
    /\ cells' = st.cells
    /\ map' = st.map
    /\ length' = st.length
    /\ subs' = st.subs
    /\ zIndex' = st.zIndex
    /\ log' = st.log
    /\ call' = [c EXCEPT !.fired = (c.handler # NoHandler /\ st.handler = NoHandler)]
    /\ pre' = Snapshot
    /\ ret' = r
    /\ sortOff' = (sortOff \/ ~c.options.sort)
    /\ UNCHANGED <<comparator, cloned>>

Init ==
    /\ comparator \in {"none", "zIndex"}
    /\ \E entities \in CellLists, z \in [Cell -> ZValues] :
         \E st \in {constructed(entities, z)} :
            /\ cells = st.cells
            /\ map = st.map
            /\ length = st.length
            /\ subs = st.subs
            /\ zIndex = st.zIndex
            /\ pre = [cells |-> st.cells, map |-> st.map, length |-> st.length,
                      subs |-> st.subs, zIndex |-> st.zIndex]
    /\ log = <<>>
    /\ call = Idle
    /\ ret = ReturnsThis
    /\ sortOff = FALSE
    /\ cloned = NoClone

\* add(cells)
Add ==
    /\ call = Idle
    /\ \E entities \in NonEmptyLists :
           \E st \in {add(State, entities, "cells", 0, NoOptions)} :
               Completes([Call("add") EXCEPT !.entities = entities], st, ReturnsThis)

\* add(cells, options)
AddWithOptions ==
    /\ call = Idle
    /\ \E entities \in NonEmptyLists, options \in AddOptions :
           \E st \in {add(State, entities, "options", 0, options)} :
               Completes([Call("add") EXCEPT !.entities = entities, !.form = "options",
                                             !.options = options], st, ReturnsThis)

\* add(cells, index, options)
AddAt ==
    /\ call = Idle
    /\ \E entities \in NonEmptyLists, index \in Indices, options \in AddOptions :
           \E st \in {add(State, entities, "index", index, options)} :
               Completes([Call("add") EXCEPT !.entities = entities, !.form = "index",
                                             !.index = index, !.options = options],
                         st, ReturnsThis)

\* Options objects that carry silent only.
PlainOptions == {o \in AddOptions : ~o.merge /\ o.sort}

Push ==
    /\ call = Idle
    /\ \E cell \in Cell, options \in PlainOptions :
           \E st \in {push(State, cell, options)} :
               Completes([Call("push") EXCEPT !.entities = <<cell>>, !.form = "index",
                                              !.index = length, !.options = options],
                         st, ReturnsThis)

Unshift ==
    /\ call = Idle
    /\ \E cell \in Cell, options \in PlainOptions :
           \E st \in {unshift(State, cell, options)} :
               Completes([Call("unshift") EXCEPT !.entities = <<cell>>, !.form = "index",
                                                 !.options = options], st, ReturnsThis)

\* remove(cell, options)
Remove ==
    /\ call = Idle
    /\ \E cell \in Cell, options \in PlainOptions :
           \E r \in {remove(State, <<cell>>, FALSE, options)} :
               Completes([Call("remove") EXCEPT !.entities = <<cell>>, !.cell = cell,
                                                !.options = options], r.st, r.ret)

\* remove(cells, options)
RemoveList ==
    /\ call = Idle
    /\ \E entities \in CellLists, options \in PlainOptions :
           \E r \in {remove(State, entities, TRUE, options)} :
               Completes([Call("removeList") EXCEPT !.entities = entities,
                                                    !.options = options], r.st, r.ret)

Pop ==
    /\ call = Idle
    /\ \E options \in PlainOptions :
           \E r \in {pop(State, options)} :
               Completes([Call("pop") EXCEPT !.options = options], r.st, r.ret)

Shift ==
    /\ call = Idle
    /\ \E options \in PlainOptions :
           \E r \in {shift(State, options)} :
               Completes([Call("shift") EXCEPT !.options = options], r.st, r.ret)

Reset ==
    /\ call = Idle
    /\ \E entities \in CellLists, options \in SetOptions :
           \E st \in {reset(State, entities, options)} :
               Completes([Call("reset") EXCEPT !.entities = entities, !.form = "options",
                                               !.options = options], st, ReturnsThis)

Sort ==
    /\ call = Idle
    /\ \E options \in PlainOptions :
           \E st \in {sort(State, options)} :
               Completes([Call("sort") EXCEPT !.options = options], st, ReturnsThis)

\* A cell publishes disposed; the collection hears it while subscribed.
CellDisposed ==
    /\ call = Idle
    /\ \E cell \in Cell :
           \E st \in {IF subs[cell] > 0 THEN onCellDisposed(State, cell) ELSE State} :
               Completes([Call("disposed") EXCEPT !.cell = cell], st, ReturnsThis)

\* A cell's zIndex is set to another value; it publishes change:zIndex and changed.
CellSetZIndex ==
    /\ call = Idle
    /\ \E cell \in Cell, z \in ZValues, options \in PlainOptions :
           /\ z # zIndex[cell]
           /\ \E st \in {storeSet(State, cell, z, options)} :
                Completes([Call("setZIndex") EXCEPT !.cell = cell, !.z = z,
                                                    !.options = options], st, ReturnsThis)

\* What at, first and last return: a cell or null.
Looked(cell) ==
    IF cell = NULL THEN Returned("null", NULL, <<>>) ELSE Returned("cell", cell, <<>>)

\* at(index)
At ==
    /\ call = Idle
    /\ \E index \in Indices :
           Completes([Call("at") EXCEPT !.index = index], State, Looked(at(State, index)))

First ==
    /\ call = Idle
    /\ Completes(Call("first"), State, Looked(first(State)))

Last ==
    /\ call = Idle
    /\ Completes(Call("last"), State, Looked(last(State)))

\* The caller has seen the call's result and events.
Observe ==
    /\ call # Idle
    /\ call' = Idle
    /\ log' = <<>>
    /\ ret' = ReturnsThis
    /\ pre' = Snapshot
    /\ cloned' = [cloned EXCEPT !.log = <<>>, !.was = CloneSnapshot]
    /\ UNCHANGED <<cells, map, length, comparator, subs, zIndex, sortOff>>

Next ==
    \/ Add
    \/ AddWithOptions
    \/ AddAt
    \/ Push
    \/ Unshift
    \/ Remove
    \/ RemoveList
    \/ Pop
    \/ Shift
    \/ Reset
    \/ Sort
    \/ CellDisposed
    \/ CellSetZIndex
    \/ At
    \/ First
    \/ Last
    \/ Observe

Spec == Init /\ [][Next]_vars

\* ------------------------------------------------- calls with a handler
\* Longest cells a call with a registered handler starts from.
MaxCells == 3

\* add(cells, options), not silent, while a handler is registered
AddReentrant ==
    /\ call = Idle
    /\ Len(cells) <= MaxCells
    /\ \E entities \in NonEmptyLists, merge \in BOOLEAN, h \in Handlers :
           /\ h.on \in {"add", "change"}
           /\ \E options \in {[silent |-> "false", merge |-> merge, sort |-> TRUE]} :
                \E st \in {add([State EXCEPT !.handler = h], entities, "options", 0,
                               options)} :
                    Completes([Call("add") EXCEPT !.entities = entities,
                                                  !.form = "options",
                                                  !.options = options,
                                                  !.handler = h], st, ReturnsThis)

\* remove(cells), not silent, while a handler is registered
RemoveReentrant ==
    /\ call = Idle
    /\ Len(cells) <= MaxCells
    /\ \E entities \in NonEmptyLists, h \in Handlers :
           /\ h.on = "remove"
           /\ \E r \in {remove([State EXCEPT !.handler = h], entities, TRUE, NoOptions)} :
                Completes([Call("removeList") EXCEPT !.entities = entities,
                                                     !.handler = h], r.st, r.ret)

\* reset(cells), not silent, while a handler is registered
ResetReentrant ==
    /\ call = Idle
    /\ Len(cells) <= MaxCells
    /\ \E entities \in CellLists, h \in Handlers :
           /\ h.on = "reset"
           /\ \E st \in {reset([State EXCEPT !.handler = h], entities, NoOptions)} :
                Completes([Call("reset") EXCEPT !.entities = entities,
                                                !.form = "options",
                                                !.handler = h], st, ReturnsThis)

NextReentrant ==
    \/ AddReentrant
    \/ RemoveReentrant
    \/ ResetReentrant
    \/ Observe

SpecReentrant == Init /\ [][NextReentrant]_vars

\* ------------------------------------------- the collection and its clone
\* The clone's state as a call on it works on it; cells share their zIndex.
ClonedState ==
    [cells |-> cloned.cells, map |-> cloned.map, length |-> cloned.length,
     subs |-> cloned.subs, zIndex |-> zIndex, log |-> <<>>, handler |-> NoHandler]

\* The collection st hears cell publish change:zIndex, then changed.
heard(st, cell, options) ==
    IF st.subs[cell] > 0
    THEN Bind(onCellZIndexChanged(st, options), LAMBDA st1 : onCellChanged(st1, cell))
    ELSE st

\* The collection st, whose cells now hold the zIndex values z, hears every
\* cell whose zIndex changed (cells from number c on).
RECURSIVE published(_, _, _, _)
published(st, z, options, c) ==
    IF c > NumIds + 1 THEN [st EXCEPT !.zIndex = z]
    ELSE IF st.zIndex[c] # z[c]
    THEN Bind(heard([st EXCEPT !.zIndex = [@ EXCEPT ![c] = z[c]]], c, options),
              LAMBDA st1 : published(st1, z, options, c + 1))
    ELSE published(st, z, options, c + 1)

\* The call F made on the collection or on its clone (which); the other one
\* hears what the shared cells publish meanwhile.
Apply(which, F(_)) ==
    IF which = "original"
    THEN Bind(F(State),
              LAMBDA st : [original |-> st,
                           cloned |-> published(ClonedState, st.zIndex, NoOptions, 1)])
    ELSE Bind(F(ClonedState),
              LAMBDA st : [original |-> published(State, st.zIndex, NoOptions, 1),
                           cloned |-> st])

\* The call c ran to completion and left the two collections as in both.
CompletesBoth(c, both, r) ==
    /\ cells' = both.original.cells
    /\ map' = both.original.map
    /\ length' = both.original.length
    /\ subs' = both.original.subs
    /\ zIndex' = both.original.zIndex
    /\ log' = both.original.log
    /\ cloned' = [exists |-> TRUE,
                  fresh |-> cloned.fresh /\ c.on # "clone",
                  cells |-> both.cloned.cells, map |-> both.cloned.map,
                  length |-> both.cloned.length, subs |-> both.cloned.subs,
                  log |-> both.cloned.log, was |-> CloneSnapshot]
    /\ call' = c
    /\ pre' = Snapshot
    /\ ret' = r
    /\ UNCHANGED <<comparator, sortOff>>

\* clone()
Clone ==
    /\ call = Idle
    /\ ~cloned.exists
    /\ \E st \in {clone(State)} :
          /\ cloned' = [exists |-> TRUE, fresh |-> TRUE, cells |-> st.cells,
                        map |-> st.map, length |-> st.length, subs |-> st.subs,
                        log |-> st.log, was |-> CloneSnapshot]
          /\ call' = Call("clone")
          /\ pre' = Snapshot
          /\ log' = <<>>
          /\ ret' = ReturnsThis
          /\ UNCHANGED <<cells, map, length, comparator, subs, zIndex, sortOff>>

Collections == {"original", "clone"}

\* add(cell, options) on the collection or on its clone
TwinAdd ==
    /\ call = Idle
    /\ cloned.exists
    /\ \E which \in Collections, cell \in Cell, merge \in BOOLEAN :
          \E options \in {[silent |-> "false", merge |-> merge, sort |-> TRUE]} :
            \E both \in {Apply(which, LAMBDA st : add(st, <<cell>>, "options", 0, options))} :
               CompletesBoth([Call("add") EXCEPT !.entities = <<cell>>, !.form = "options",
                                                 !.options = options, !.on = which],
                             both, ReturnsThis)

\* remove(cell) on the collection or on its clone
TwinRemove ==
    /\ call = Idle
    /\ cloned.exists
    /\ \E which \in Collections, cell \in Cell :
          \E both \in {Apply(which, LAMBDA st : remove(st, <<cell>>, FALSE, NoOptions).st)} :
             CompletesBoth([Call("remove") EXCEPT !.entities = <<cell>>, !.cell = cell,
                                                  !.on = which], both, ReturnsThis)

\* reset(cells) on the collection or on its clone
TwinReset ==
    /\ call = Idle
    /\ cloned.exists
    /\ \E which \in Collections, entities \in CellLists :
          \E both \in {Apply(which, LAMBDA st : reset(st, entities, NoOptions))} :
             CompletesBoth([Call("reset") EXCEPT !.entities = entities, !.form = "options",
                                                 !.on = which], both, ReturnsThis)

\* sort() on the collection or on its clone
TwinSort ==
    /\ call = Idle
    /\ cloned.exists
    /\ \E which \in Collections :
          \E both \in {Apply(which, LAMBDA st : sort(st, NoOptions))} :
             CompletesBoth([Call("sort") EXCEPT !.on = which], both, ReturnsThis)

\* A cell publishes disposed; each collection hears it while subscribed.
TwinDisposed ==
    /\ call = Idle
    /\ cloned.exists
    /\ \E cell \in Cell :
          \E both \in {[original |-> IF subs[cell] > 0
                                     THEN onCellDisposed(State, cell) ELSE State,
                         cloned |-> IF cloned.subs[cell] > 0
                                    THEN onCellDisposed(ClonedState, cell)
                                    ELSE ClonedState]} :
             CompletesBoth([Call("disposed") EXCEPT !.cell = cell, !.on = "cell"],
                           both, ReturnsThis)

\* A cell's zIndex is set to another value; each collection hears it while
\* subscribed.
TwinSetZIndex ==
    /\ call = Idle
    /\ cloned.exists
    /\ \E cell \in Cell, z \in ZValues :
          /\ z # zIndex[cell]
          /\ \E both \in {[original |-> storeSet(State, cell, z, NoOptions),
                            cloned |-> storeSet(ClonedState, cell, z, NoOptions)]} :
                CompletesBoth([Call("setZIndex") EXCEPT !.cell = cell, !.z = z,
                                                        !.on = "cell"],
                              both, ReturnsThis)

NextClone ==
    \/ Clone
    \/ TwinAdd
    \/ TwinRemove
    \/ TwinReset
    \/ TwinSort
    \/ TwinDisposed
    \/ TwinSetZIndex
    \/ Observe

SpecClone == Init /\ [][NextClone]_vars

\* -------------------------------------------------------------- structure
Members == SeqToSet(cells)
MapSize == Cardinality({i \in Ids : map[i] # NULL})

TypeOK ==
    /\ \A i \in 1..Len(cells) : cells[i] \in Cell
    /\ \A i \in Ids : map[i] \in Cell \cup {NULL}
    /\ \A c \in Cell : subs[c] >= 0 /\ zIndex[c] \in ZValues
    /\ comparator \in {"none", "zIndex"}

IsAdd == call.op \in {"add", "push", "unshift"}
IsRemove == call.op \in {"remove", "removeList", "pop", "shift"}

\* The options add works with (localOptions) in the last call.
CallLocalOptions == localOptionsOf(call.form, call.options)

\* Events of the last call by name, and those one trigger site emitted.
Named(names) == SelectSeq(log, LAMBDA ev : ev.name \in names)
EmittedBy(by) == SelectSeq(log, LAMBDA ev : ev.by = by)

\* The entries of an input list whose id is not a key of m, first occurrence
\* of each id only, in input order.
RECURSIVE NewlyInserted(_, _)
NewlyInserted(entities, present) ==
    IF entities = <<>> THEN <<>>
    ELSE IF Id(Head(entities)) \in present
    THEN NewlyInserted(Tail(entities), present)
    ELSE <<Head(entities)>> \o
         NewlyInserted(Tail(entities), present \cup {Id(Head(entities))})

PresentIds(m) == {i \in Ids : m[i] # NULL}

\* ------------------------------------------------------------------ C1
\* C1: after every operation the collection is structurally consistent: no two
\* cells in cells share an id, map[id] is e exactly when e is in cells with
\* that id, and length = Len(cells) = number of keys of map.
Consistent ==
    /\ \A i, j \in 1..Len(cells) : Id(cells[i]) = Id(cells[j]) => i = j
    /\ \A i \in Ids : map[i] # NULL => (map[i] \in Members /\ Id(map[i]) = i)
    /\ \A e \in Members : map[Id(e)] = e
    /\ length = Len(cells)
    /\ length = MapSize

\* An add whose input list names one absent id twice, by two different objects.
ConsistentWitness ==
    /\ IsAdd
    /\ Len(call.entities) = 2
    /\ call.entities[1] # call.entities[2]
    /\ Id(call.entities[1]) = Id(call.entities[2])
    /\ pre.map[Id(call.entities[1])] = NULL
    /\ Len(pre.cells) = 1
    /\ cells = SpliceIn(pre.cells, localIndexOf(pre, call.form, call.index),
                        <<call.entities[1]>>)

\* ------------------------------------------------------------------ C2
\* C2: an add (any call form) of cells whose ids are all present already, with
\* merge not set, changes neither cells, map, length nor the listeners, and
\* emits no add, sort or update event.
IdempotentAdd ==
    (/\ IsAdd
     /\ ~CallLocalOptions.merge
     /\ \A i \in 1..Len(call.entities) : pre.map[Id(call.entities[i])] # NULL)
    => /\ cells = pre.cells
       /\ map = pre.map
       /\ length = pre.length
       /\ subs = pre.subs
       /\ Named({"add", "sort", "update"}) = <<>>

\* Adding, at an explicit index, another object that carries a member's id.
IdempotentAddWitness ==
    /\ call.op = "add"
    /\ call.form = "index"
    /\ ~call.options.merge
    /\ Len(call.entities) = 1
    /\ pre.map[Id(call.entities[1])] \notin {NULL, call.entities[1]}
    /\ Len(pre.cells) = 2
    /\ cells = pre.cells

\* ------------------------------------------------------------------ C3
\* C3: whenever a comparator is configured and no call was given sort: false,
\* cells is ordered by the comparator once an operation has returned
\* (construction with initial cells included).
SortedAfterEveryOperation ==
    (comparator # "none" /\ ~sortOff) => Ordered(cells, zIndex)

\* ------------------------------------------------------------------ C4
\* C4: every member has exactly one set of the collection's listeners installed
\* and every cell that is not a member has none.
SubscriptionPairing ==
    \A c \in Cell : subs[c] = (IF c \in Members THEN 1 ELSE 0)

\* A reset that keeps a member, drops another and brings in a new object.
SubscriptionPairingWitness ==
    /\ call.op = "reset"
    /\ Len(pre.cells) = 2
    /\ Len(cells) = 1
    /\ cells[1] \in SeqToSet(pre.cells)
    /\ \E c \in SeqToSet(pre.cells) : c \notin Members /\ subs[c] = 0
    /\ subs[cells[1]] = 1

\* ------------------------------------------------------------------ C5
\* The members that the merge branch of add records for an input list, in
\* input order; present is the set of ids in map as the loop proceeds.
RECURSIVE MergedMembers(_, _, _)
MergedMembers(entities, m, merge) ==
    IF entities = <<>> THEN <<>>
    ELSE LET cell == Head(entities)
             existing == m[Id(cell)]
         IN IF existing = NULL
            THEN MergedMembers(Tail(entities), [m EXCEPT ![Id(cell)] = cell], merge)
            ELSE (IF merge /\ existing # cell THEN <<existing>> ELSE <<>>)
                 \o MergedMembers(Tail(entities), m, merge)

NamesOf(events) == [i \in 1..Len(events) |-> events[i].name]
CellsOf(events) == [i \in 1..Len(events) |-> events[i].cell]

\* C5: the events a non-silent add emits are, in this order: one add event per
\* newly inserted cell in input order; one sort event exactly when the add
\* sorted (comparator set, add(cells) form, something inserted); one update
\* event exactly when something was added or merged, with added the newly
\* inserted cells in input order, merged the merged members and removed empty.
\* They are the last events of the call, and no other add or update event occurs.
AddEventOrder ==
    (IsAdd /\ ~Silent(CallLocalOptions)) =>
        LET own == EmittedBy("add")
            newly == NewlyInserted(call.entities, PresentIds(pre.map))
            mergedM == MergedMembers(call.entities, pre.map, CallLocalOptions.merge)
            n == Len(newly)
            sorted == comparator # "none" /\ call.form = "cells" /\ n > 0
            k == n + (IF sorted THEN 1 ELSE 0)
            updated == n > 0 \/ mergedM # <<>>
        IN /\ Len(own) = k + (IF updated THEN 1 ELSE 0)
           /\ own = SubSeq(log, Len(log) - Len(own) + 1, Len(log))
           /\ NamesOf(SubSeq(own, 1, n)) = [i \in 1..n |-> "add"]
           /\ CellsOf(SubSeq(own, 1, n)) = newly
           /\ sorted => own[n + 1].name = "sort"
           /\ updated => /\ own[k + 1].name = "update"
                         /\ own[k + 1].added = newly
                         /\ own[k + 1].merged = mergedM
                         /\ own[k + 1].removed = <<>>
           /\ Named({"add", "update"}) = SelectSeq(own, LAMBDA ev : ev.name # "sort")
           /\ sorted => Ordered(cells, zIndex)

\* add([x, y]) under a comparator that puts y before x: add x, add y, sort,
\* update with added = <<x, y>>.
AddEventOrderWitness ==
    /\ call.op = "add"
    /\ call.form = "cells"
    /\ Len(call.entities) = 2
    /\ NamesOf(log) = <<"add", "add", "sort", "update">>
    /\ log[4].added = call.entities
    /\ cells = <<call.entities[2], call.entities[1]>>

\* C5 as stated: the add, sort and update events of a non-silent add are, in
\* this order, the add events, then at most one sort event, then at most one
\* update event.
AddEventOrderWholeStream ==
    (IsAdd /\ ~Silent(CallLocalOptions)) =>
        LET seen == NamesOf(Named({"add", "sort", "update"}))
        IN \A i, j \in 1..Len(seen) :
              i < j => /\ seen[j] = "add" => seen[i] = "add"
                       /\ seen[i] = "update" => FALSE
                       /\ seen[i] = "sort" => seen[j] = "update"

\* ------------------------------------------------------------------ C6
\* C6: with a comparator configured, no explicit numeric index, sort not false
\* and at least one new cell inserted, add leaves cells ordered by the
\* comparator and, unless silent, emits a sort event; in the add(cells) form
\* and in the add(cells, options) form alike.
AddSortDecision ==
    (/\ call.op = "add"
     /\ comparator # "none"
     /\ call.form # "index"
     /\ CallLocalOptions.sort
     /\ Len(cells) > Len(pre.cells))
    => /\ Ordered(cells, zIndex)
       /\ ~Silent(CallLocalOptions) => Named({"sort"}) # <<>>

\* ------------------------------------------------------------------ C7
\* C7: add with merge: true of one cell whose id is present under another
\* instance overwrites the member's data, keeps the member, its map entry and
\* length, emits no add event and, unless silent, exactly one update event with
\* merged = <<member>> and added empty.  When the incoming cell is the member
\* itself nothing is merged and no update is emitted.
MergeSemantics ==
    (/\ IsAdd
     /\ call.options.merge
     /\ Len(call.entities) = 1
     /\ pre.map[Id(call.entities[1])] # NULL)
    => LET cell == call.entities[1]
           existing == pre.map[Id(cell)]
       IN /\ map = pre.map
          /\ length = pre.length
          /\ Members = SeqToSet(pre.cells)
          /\ Len(cells) = Len(pre.cells)
          /\ subs = pre.subs
          /\ Named({"add"}) = <<>>
          /\ IF cell # existing
             THEN /\ zIndex = [pre.zIndex EXCEPT ![existing] = pre.zIndex[cell]]
                  /\ IF Silent(CallLocalOptions)
                     THEN Named({"update"}) = <<>>
                     ELSE /\ Len(Named({"update"})) = 1
                          /\ Named({"update"})[1].merged = <<existing>>
                          /\ Named({"update"})[1].added = <<>>
                          /\ log[Len(log)].name = "update"
             ELSE /\ zIndex = pre.zIndex
                  /\ cells = pre.cells
                  /\ log = <<>>

\* A non-silent merge that changes the member's zIndex.
MergeSemanticsWitness ==
    /\ call.op = "add"
    /\ call.options.merge
    /\ Len(call.entities) = 1
    /\ pre.map[Id(call.entities[1])] \notin {NULL, call.entities[1]}
    /\ pre.zIndex[call.entities[1]] # pre.zIndex[pre.map[Id(call.entities[1])]]
    /\ zIndex[map[Id(call.entities[1])]] = pre.zIndex[call.entities[1]]
    /\ Len(cells) = 2
    /\ Named({"update"}) # <<>>

\* Re-adding the member itself with merge: true.
MergeSameStoreWitness ==
    /\ call.op = "add"
    /\ call.options.merge
    /\ call.options.silent = "false"
    /\ Len(call.entities) = 1
    /\ pre.map[Id(call.entities[1])] = call.entities[1]
    /\ log = <<>>

\* ------------------------------------------------------------------ C8
\* Position of x in s counted from 0 (x occurs in s).
PositionOf(s, x) == (CHOOSE i \in 1..Len(s) : s[i] = x) - 1
Without(s, x) == SelectSeq(s, LAMBDA y : y # x)
MemberWithId(s, i) == CHOOSE c \in SeqToSet(s) : Id(c) = i
HasId(s, i) == \E c \in SeqToSet(s) : Id(c) = i

\* The members an input list of remove resolves to, in input order, each once.
RECURSIVE ActuallyRemoved(_, _)
ActuallyRemoved(entities, s) ==
    IF entities = <<>> THEN <<>>
    ELSE IF Head(entities) # NULL /\ HasId(s, Id(Head(entities)))
    THEN LET cell == MemberWithId(s, Id(Head(entities)))
         IN <<cell>> \o ActuallyRemoved(Tail(entities), Without(s, cell))
    ELSE ActuallyRemoved(Tail(entities), s)

\* The index each of them held right before it was taken out.
RECURSIVE IndicesBeforeRemoval(_, _)
IndicesBeforeRemoval(removed, s) ==
    IF removed = <<>> THEN <<>>
    ELSE <<PositionOf(s, Head(removed))>>
         \o IndicesBeforeRemoval(Tail(removed), Without(s, Head(removed)))

\* C8: a non-silent remove of a list emits, for each input that resolves to a
\* member, in input order, one remove event carrying the index the member held
\* right before it was spliced out, and then, if anything was removed, one
\* update event with removed = the removed members in that order and added and
\* merged empty; nothing else.
RemoveEventOrder ==
    (call.op = "removeList" /\ ~Silent(call.options)) =>
        LET removed == ActuallyRemoved(call.entities, pre.cells)
            n == Len(removed)
        IN /\ Len(log) = (IF n > 0 THEN n + 1 ELSE 0)
           /\ \A i \in 1..n :
                /\ log[i].name = "remove"
                /\ log[i].cell = removed[i]
                /\ log[i].index = IndicesBeforeRemoval(removed, pre.cells)[i]
           /\ n > 0 => /\ log[n + 1].name = "update"
                       /\ log[n + 1].removed = removed
                       /\ log[n + 1].added = <<>>
                       /\ log[n + 1].merged = <<>>
           /\ \A c \in SeqToSet(removed) : c \notin Members /\ map[Id(c)] = NULL

\* remove([x, y]) of the collection <<x, y>>: x leaves from index 0, then y from 0.
RemoveEventOrderWitness ==
    /\ call.op = "removeList"
    /\ Len(pre.cells) = 2
    /\ call.entities = pre.cells
    /\ NamesOf(log) = <<"remove", "remove", "update">>
    /\ log[1].index = 0
    /\ log[2].index = 0
    /\ log[3].removed = pre.cells

\* ------------------------------------------------------------------ C9
\* C9: removal targets that are not members are skipped: the call removes
\* exactly the members its inputs resolve to and nothing else, a list call
\* returns those, a single call (remove, pop, shift) returns the member or
\* undefined, and when no input resolves nothing changes and no event is
\* emitted.
AbsentTargetsSkipped ==
    IsRemove =>
        LET targets == IF call.op \in {"pop", "shift"}
                       THEN (IF pre.cells = <<>> THEN <<NULL>>
                             ELSE IF call.op = "pop" THEN <<pre.cells[Len(pre.cells)]>>
                             ELSE <<pre.cells[1]>>)
                       ELSE call.entities
            removed == ActuallyRemoved(targets, pre.cells)
        IN /\ cells = SelectSeq(pre.cells, LAMBDA c : c \notin SeqToSet(removed))
           /\ length = pre.length - Len(removed)
           /\ map = [i \in Ids |-> IF pre.map[i] \in SeqToSet(removed)
                                   THEN NULL ELSE pre.map[i]]
           /\ Len(Named({"remove"})) = (IF Silent(call.options) THEN 0 ELSE Len(removed))
           /\ removed = <<>> => log = <<>>
           /\ ret = IF call.op = "removeList" THEN Returned("list", NULL, removed)
                    ELSE IF removed = <<>> THEN Returned("undefined", NULL, <<>>)
                    ELSE Returned("cell", removed[1], <<>>)

\* remove([x, x']) with x and x' carrying one id: the second occurrence is
\* skipped and the call returns the one member removed.
AbsentTargetsSkippedWitness ==
    /\ call.op = "removeList"
    /\ Len(call.entities) = 2
    /\ Len(pre.cells) = 2
    /\ Id(call.entities[1]) = Id(call.entities[2])
    /\ ret.list = <<pre.map[Id(call.entities[1])]>>
    /\ Len(cells) = 1

\* remove([x, y]) with x absent and y a member: the batch goes on past x.
AbsentFirstWitness ==
    /\ call.op = "removeList"
    /\ Len(call.entities) = 2
    /\ pre.map[Id(call.entities[1])] = NULL
    /\ pre.map[Id(call.entities[2])] = call.entities[2]
    /\ ret.list = <<call.entities[2]>>
    /\ call.entities[2] \notin Members

\* pop on an empty collection.
PopEmptyWitness ==
    /\ call.op = "pop"
    /\ pre.cells = <<>>
    /\ ret.kind = "undefined"
    /\ log = <<>>

\* ------------------------------------------------------------------ C10
\* C10: a reset whose options do not request silence (silent absent or false)
\* emits exactly one reset event, with previous the sequence held before the
\* call and current the sequence held after it, and no add, remove, update or
\* sort event.
ResetSemantics ==
    (call.op = "reset" /\ call.options.silent # "true") =>
        /\ Len(log) = 1
        /\ log[1].name = "reset"
        /\ log[1].previous = pre.cells
        /\ log[1].current = cells

\* ------------------------------------------------------------------ C11
\* The state the last call began in.
PreState ==
    [cells |-> pre.cells, map |-> pre.map, length |-> pre.length,
     subs |-> pre.subs, zIndex |-> pre.zIndex, log |-> <<>>, handler |-> NoHandler]

\* The state the last call leaves when it is made from PreState with options.
Rerun(options) ==
    CASE call.op = "add" ->
            add(PreState, call.entities, call.form, call.index, options)
      [] call.op = "push" -> push(PreState, call.entities[1], options)
      [] call.op = "unshift" -> unshift(PreState, call.entities[1], options)
      [] call.op = "remove" -> remove(PreState, call.entities, FALSE, options).st
      [] call.op = "removeList" -> remove(PreState, call.entities, TRUE, options).st
      [] call.op = "pop" -> pop(PreState, options).st
      [] call.op = "shift" -> shift(PreState, options).st
      [] call.op = "reset" -> reset(PreState, call.entities, options)
      [] call.op = "sort" -> sort(PreState, options)
      [] OTHER -> PreState

Mutators ==
    {"add", "push", "unshift", "remove", "removeList", "pop", "shift", "reset", "sort"}

\* silent: true was given to the last call.
CallSilent == IF IsAdd THEN Silent(CallLocalOptions) ELSE Silent(call.options)

CollectionEvents == {"add", "remove", "sort", "update", "reset"}

\* C11: a call of add, push, unshift, remove, pop, shift, reset or sort made
\* with silent: true emits no add, remove, sort, update or reset event, and
\* leaves the cells, map and length the same call without silent leaves.
SilentSuppression ==
    (call.op \in Mutators /\ CallSilent) =>
        /\ Named(CollectionEvents) = <<>>
        /\ \E loud \in {Rerun([call.options EXCEPT !.silent = "false"])} :
              /\ cells = loud.cells
              /\ map = loud.map
              /\ length = loud.length

\* ------------------------------------------------------------------ C12
\* C12: when a member publishes disposed it leaves cells and map, its listeners
\* are detached, and exactly one remove event followed by exactly one update
\* event with removed = <<that cell>> is emitted; disposed from a cell that is
\* not a member (one removed by an earlier disposed included) changes nothing
\* and emits nothing.
CascadingDisposal ==
    call.op = "disposed" =>
        IF call.cell \in SeqToSet(pre.cells)
        THEN /\ cells = Without(pre.cells, call.cell)
             /\ length = pre.length - 1
             /\ map = [pre.map EXCEPT ![Id(call.cell)] = NULL]
             /\ subs = [pre.subs EXCEPT ![call.cell] = 0]
             /\ NamesOf(log) = <<"remove", "update">>
             /\ log[1].cell = call.cell
             /\ log[1].index = PositionOf(pre.cells, call.cell)
             /\ log[2].removed = <<call.cell>>
             /\ log[2].added = <<>>
             /\ log[2].merged = <<>>
        ELSE /\ cells = pre.cells
             /\ length = pre.length
             /\ map = pre.map
             /\ subs = pre.subs
             /\ log = <<>>

\* The second of two members publishes disposed.
CascadingDisposalWitness ==
    /\ call.op = "disposed"
    /\ Len(pre.cells) = 2
    /\ call.cell = pre.cells[2]
    /\ cells = <<pre.cells[1]>>
    /\ NamesOf(log) = <<"remove", "update">>
    /\ log[1].index = 1

\* disposed from an object that carries a member's id but is not the member.
DisposedTwinWitness ==
    /\ call.op = "disposed"
    /\ call.cell \notin SeqToSet(pre.cells)
    /\ pre.map[Id(call.cell)] # NULL
    /\ cells = pre.cells
    /\ log = <<>>

\* ------------------------------------------------------------------ C13
\* Nothing of the collection changed in the last call and no event was emitted.
ReadOnly ==
    /\ cells = pre.cells
    /\ map = pre.map
    /\ length = pre.length
    /\ subs = pre.subs
    /\ zIndex = pre.zIndex
    /\ log = <<>>

\* C13: at(i) returns cells[i] for 0 <= i < length, cells[i + length] for
\* -length <= i < 0 and null otherwise (on an empty collection too); so
\* at(-1) is what last() returns and at(-length) what first() returns; at
\* always returns and changes nothing.
NegativeIndexing ==
    /\ call.op = "at" =>
          LET i == call.index
              n == pre.length
          IN /\ ret = IF 0 <= i /\ i < n THEN Returned("cell", pre.cells[i + 1], <<>>)
                      ELSE IF 0 - n <= i /\ i < 0
                      THEN Returned("cell", pre.cells[i + n + 1], <<>>)
                      ELSE Returned("null", NULL, <<>>)
             /\ (i = 0 - 1) => ret = Looked(last(PreState))
             /\ (n > 0 /\ i = 0 - n) => ret = Looked(first(PreState))
             /\ ReadOnly
    /\ call.op = "first" =>
          /\ ret = IF pre.cells = <<>> THEN Returned("null", NULL, <<>>)
                   ELSE Returned("cell", pre.cells[1], <<>>)
          /\ ReadOnly
    /\ call.op = "last" =>
          /\ ret = IF pre.cells = <<>> THEN Returned("null", NULL, <<>>)
                   ELSE Returned("cell", pre.cells[Len(pre.cells)], <<>>)
          /\ ReadOnly

\* at(-2) of a collection of two: the first cell.
NegativeIndexingWitness ==
    /\ call.op = "at"
    /\ call.index = 0 - 2
    /\ pre.length = 2
    /\ ret = Returned("cell", pre.cells[1], <<>>)

\* at(-3) of a collection of two: still out of range after wrapping.
OutOfRangeWitness ==
    /\ call.op = "at"
    /\ call.index = 0 - 3
    /\ pre.length = 2
    /\ ret.kind = "null"

\* ------------------------------------------------------------------ C14
\* The index add resolved in the last call (localIndex).
CallLocalIndex == localIndexOf(PreState, call.form, call.index)

\* The cells the last add inserted, in input order.
CallNewly == NewlyInserted(call.entities, PresentIds(pre.map))

\* C14: for every explicit numeric index the index add resolves lies in
\* 0..length (length before the insertion), the new cells occupy consecutive
\* positions of cells from that index on, and every add event carries an index
\* in 0..(new length - 1).
IndexClamping ==
    (IsAdd /\ call.form = "index") =>
        /\ 0 <= CallLocalIndex
        /\ CallLocalIndex <= pre.length
        /\ SubSeq(cells, CallLocalIndex + 1, CallLocalIndex + Len(CallNewly)) = CallNewly
        /\ \A i \in 1..Len(log) :
              log[i].name = "add" => (0 <= log[i].index /\ log[i].index < length)

\* ------------------------------------------------------------------ C15
\* C15: add with the explicit index -1 on a non-empty collection puts the new
\* cell right before the last element, which stays last.
NegativeInsertion ==
    (/\ call.op = "add"
     /\ call.form = "index"
     /\ call.index = 0 - 1
     /\ pre.cells # <<>>
     /\ Len(CallNewly) = 1)
    => /\ cells[Len(cells)] = pre.cells[Len(pre.cells)]
       /\ cells[Len(cells) - 1] = CallNewly[1]

\* ------------------------------------------------------------------ C16
\* C16: every add event carries the index at which its cell is found in cells
\* when the event is emitted (add has finished changing cells by then), also
\* when add sorted cells before emitting.
AddEventPosition ==
    IsAdd =>
        \A i \in 1..Len(log) :
            log[i].name = "add" =>
                /\ 0 <= log[i].index
                /\ log[i].index < Len(cells)
                /\ cells[log[i].index + 1] = log[i].cell

\* ------------------------------------------------------------------ C17
\* Some input of the last add met a member held under another instance whose
\* zIndex differed from the incoming one.
MergeChangesKey ==
    \E i \in 1..Len(call.entities) :
        LET cell == call.entities[i]
            existing == pre.map[Id(cell)]
        IN /\ existing \notin {NULL, cell}
           /\ pre.zIndex[existing] # pre.zIndex[cell]

\* C17: when add with merge: true overwrites a member's data and changes the
\* comparator's key, and inserts nothing, cells is ordered by the comparator on
\* return and, unless the add is silent, a sort event precedes the update event.
MergeTriggeredResort ==
    (/\ IsAdd
     /\ comparator # "none"
     /\ call.options.merge
     /\ CallNewly = <<>>
     /\ MergeChangesKey)
    => /\ Ordered(cells, zIndex)
       /\ ~Silent(CallLocalOptions) =>
             \E i, j \in 1..Len(log) :
                 i < j /\ log[i].name = "sort" /\ log[j].name = "update"

\* A merge that moves the first of two members behind the second.
MergeTriggeredResortWitness ==
    /\ call.op = "add"
    /\ comparator # "none"
    /\ call.options.merge
    /\ call.options.silent = "false"
    /\ Len(call.entities) = 1
    /\ Len(pre.cells) = 2
    /\ pre.map[Id(call.entities[1])] = pre.cells[1]
    /\ pre.cells[1] # call.entities[1]
    /\ cells = <<pre.cells[2], pre.cells[1]>>
    /\ NamesOf(log) = <<"sort", "change", "update">>

\* ------------------------------------------------------------------ C18
\* C18: when a member publishes change:zIndex under a comparator, cells is
\* the comparator's ordering of the same members afterwards and exactly one
\* sort event is emitted, none when the options carried are silent; with no
\* comparator, or when the cell is not a member, the order is kept and no sort
\* event is emitted.
ZOrderRestacking ==
    call.op = "setZIndex" =>
        /\ zIndex = [pre.zIndex EXCEPT ![call.cell] = call.z]
        /\ map = pre.map
        /\ length = pre.length
        /\ IF call.cell \in SeqToSet(pre.cells) /\ comparator # "none"
           THEN /\ Ordered(cells, zIndex)
                /\ SeqToSet(cells) = SeqToSet(pre.cells)
                /\ Len(cells) = Len(pre.cells)
                /\ Len(Named({"sort"})) = (IF Silent(call.options) THEN 0 ELSE 1)
           ELSE /\ cells = pre.cells
                /\ Named({"sort"}) = <<>>

\* Raising the zIndex of the first of two members moves it behind the second.
ZOrderRestackingWitness ==
    /\ call.op = "setZIndex"
    /\ comparator # "none"
    /\ Len(pre.cells) = 2
    /\ call.cell = pre.cells[1]
    /\ cells = <<pre.cells[2], pre.cells[1]>>
    /\ NamesOf(log) = <<"sort", "change">>

\* change:zIndex from an object that is not a member, under a comparator.
ZOrderNonMemberWitness ==
    /\ call.op = "setZIndex"
    /\ comparator # "none"
    /\ call.cell \notin SeqToSet(pre.cells)
    /\ Len(pre.cells) = 2
    /\ ~Ordered(cells, zIndex)
    /\ log = <<>>

\* ------------------------------------------------------------------ C19
\* How often x occurs in s.
Count(s, x) == Cardinality({i \in 1..Len(s) : s[i] = x})

\* C19: sort without a comparator changes nothing and emits nothing; sort with
\* a comparator leaves the same cells, each as often as before, in the
\* comparator's order, keeps map, length and the listeners, and emits exactly
\* one sort event, none when silent.
SortPreservesMembership ==
    call.op = "sort" =>
        IF comparator = "none" THEN ReadOnly
        ELSE /\ \A c \in Cell : Count(cells, c) = Count(pre.cells, c)
             /\ Ordered(cells, zIndex)
             /\ map = pre.map
             /\ length = pre.length
             /\ subs = pre.subs
             /\ zIndex = pre.zIndex
             /\ NamesOf(log) = (IF Silent(call.options) THEN <<>> ELSE <<"sort">>)

\* A non-silent sort that swaps two members.
SortPreservesMembershipWitness ==
    /\ call.op = "sort"
    /\ comparator # "none"
    /\ Len(pre.cells) = 2
    /\ cells = <<pre.cells[2], pre.cells[1]>>
    /\ NamesOf(log) = <<"sort">>

\* sort on a collection without comparator whose cells are not in zIndex order.
SortNoComparatorWitness ==
    /\ call.op = "sort"
    /\ comparator = "none"
    /\ ~Ordered(pre.cells, pre.zIndex)
    /\ cells = pre.cells
    /\ log = <<>>

\* ------------------------------------------------------------------ C20
\* cells, map and length of v agree: no id twice in cells, map[id] is e exactly
\* when e is in cells with that id, length = Len(cells) = number of keys.
ConsistentView(v) ==
    /\ \A i, j \in 1..Len(v.cells) : Id(v.cells[i]) = Id(v.cells[j]) => i = j
    /\ \A i \in Ids : v.map[i] # NULL =>
           (v.map[i] \in SeqToSet(v.cells) /\ Id(v.map[i]) = i)
    /\ \A e \in SeqToSet(v.cells) : v.map[Id(e)] = e
    /\ v.length = Len(v.cells)
    /\ v.length = Cardinality(PresentIds(v.map))

\* C20: whenever a collection event is delivered to a handler, cells, map and
\* length agree; so a change event republished from a merged member during
\* the per-item loop of add finds every cell of the batch that is in map in
\* cells as well.
ConsistentAtDispatch ==
    \A i \in 1..Len(log) : ConsistentView(log[i].seen)

\* ------------------------------------------------------------------ C21
\* The last call began in a state where cells, map, length and the listeners
\* agreed.
PreConsistent ==
    /\ ConsistentView(pre)
    /\ \A c \in Cell : pre.subs[c] = (IF c \in SeqToSet(pre.cells) THEN 1 ELSE 0)

\* The member of the state before the call that the handler's remove names.
NamedByHandler(e) == call.handler.op = "remove" /\ Id(e) = Id(call.handler.cell)

\* The outer call itself was asked to remove e.
NamedByCall(e) ==
    \/ call.op = "reset"
    \/ /\ call.op = "removeList"
       /\ \E i \in 1..Len(call.entities) : Id(call.entities[i]) = Id(e)

\* C21: when a handler run inline during an add, remove or reset calls add or
\* remove on the collection, then once the outer call has returned cells, map
\* and length agree (no id twice, map and cells hold the same cells, length
\* counts them) and no member has left other than those the outer call or the
\* handler named.
ReentrantSafe ==
    (call.fired /\ PreConsistent) =>
        /\ ConsistentView(View(State))
        /\ \A e \in SeqToSet(pre.cells) :
              e \in Members \/ NamedByHandler(e) \/ NamedByCall(e)

\* ------------------------------------------------------------------ C22
\* The last call was add, remove, reset or sort on the named collection while
\* both collections existed.
CalledOn(which) ==
    /\ cloned.exists
    /\ call.op \in {"add", "remove", "reset", "sort"}
    /\ call.on = which

\* clone() returned a collection of the same cells in the same order, indexed
\* by id, and left the collection it was called on as it was.
ClonedAsIs ==
    call.op = "clone" =>
        /\ cloned.exists
        /\ cloned.cells = cells
        /\ cloned.length = length
        /\ cloned.map = map
        /\ cells = pre.cells
        /\ map = pre.map
        /\ length = pre.length
        /\ subs = pre.subs

\* C22 as stated: clone() returns a collection of the same cells in the same
\* order and leaves the original's cells, map, length and listeners as they
\* were; a later add, remove, reset or sort on the clone leaves the original's
\* cells, map and length as they were, and a call on the original those of
\* the clone.
CloneIndependence ==
    /\ ClonedAsIs
    /\ CalledOn("clone") =>
          (cells = pre.cells /\ map = pre.map /\ length = pre.length)
    /\ CalledOn("original") =>
          /\ cloned.cells = cloned.was.cells
          /\ cloned.map = cloned.was.map
          /\ cloned.length = cloned.was.length

\* C22, amended: clone() as above; a later add, remove, reset or sort on one
\* of the two collections leaves the other's map, length, listeners and
\* members as they were, and its order too unless the call changed the zIndex
\* of a cell (an add with merge: true), in which case the other collection
\* holds the same members, in the comparator's order if it has the cell.
CloneMembershipIndependence ==
    /\ ClonedAsIs
    /\ CalledOn("clone") =>
          /\ map = pre.map
          /\ length = pre.length
          /\ subs = pre.subs
          /\ \A c \in Cell : Count(cells, c) = Count(pre.cells, c)
          /\ zIndex = pre.zIndex => cells = pre.cells
          /\ (\E c \in Members : zIndex[c] # pre.zIndex[c]) =>
                 (comparator # "none" => Ordered(cells, zIndex))
    /\ CalledOn("original") =>
          /\ cloned.map = cloned.was.map
          /\ cloned.length = cloned.was.length
          /\ cloned.subs = cloned.was.subs
          /\ \A c \in Cell : Count(cloned.cells, c) = Count(cloned.was.cells, c)
          /\ zIndex = pre.zIndex => cloned.cells = cloned.was.cells
          /\ (\E c \in SeqToSet(cloned.cells) : zIndex[c] # pre.zIndex[c]) =>
                 (comparator # "none" => Ordered(cloned.cells, zIndex))

\* remove on the clone of a collection of two: the clone loses the cell, the
\* original keeps both and their listeners.
CloneMembershipIndependenceWitness ==
    /\ CalledOn("clone")
    /\ call.op = "remove"
    /\ Len(pre.cells) = 2
    /\ cloned.was.cells = pre.cells
    /\ Len(cloned.cells) = 1
    /\ cells = pre.cells
    /\ subs = pre.subs

\* clone() of a collection of two.
ClonedAsIsWitness ==
    /\ call.op = "clone"
    /\ Len(cells) = 2
    /\ cloned.cells = cells

\* ------------------------------------------------------------------ C23
\* C23: when clone() returns, the clone has installed no listeners on the
\* cells; a cell event (disposed, change:zIndex with changed) published before
\* any method of the clone is called changes neither the clone's cells, map
\* and length nor makes the clone emit an event.
CloneStartsUnsubscribed ==
    /\ call.op = "clone" => \A c \in Cell : cloned.subs[c] = 0
    /\ (call.op \in {"disposed", "setZIndex"} /\ cloned.exists /\ cloned.fresh) =>
          /\ cloned.cells = cloned.was.cells
          /\ cloned.map = cloned.was.map
          /\ cloned.length = cloned.was.length
          /\ cloned.log = <<>>

====
